---- MODULE Spec2Model ----
\* Model of salt/utils/odict.py: the backported OrderedDict (a dict plus a
\* circular doubly linked list of [PREV, NEXT, KEY] links around a sentinel).
\*
\* Python objects that are compared by identity (the links, which are lists)
\* live in `heap', addressed by integer handles.  The inherited dict and the
\* private __map dict are functions from keys to values / link handles.
EXTENDS Integers, Sequences, FiniteSets, TLC

\* ---------------------------------------------------------------- bounds
MaxKey == 2          \* keys are None and 1..MaxKey
MaxVal == 1          \* values are None and 1..MaxVal
MaxSets == 2         \* longest recorded run of sets after a clear()
MaxAfter == 2        \* calls applied after a copy() that is kept

\* ------------------------------------------------------------- constants
None == 0            \* Python's None (a legal key and value)
Marker == -1         \* the private __marker sentinel object of pop()
PREV == 1            \* link[0]
NEXT == 2            \* link[1]
KEY == 3             \* link[2]

Keys == {None} \cup (1..MaxKey)
Values == {None} \cup (1..MaxVal)
Defaults == Values \cup {Marker}

\* default_factory is None or a callable.  What a call of the callable does is
\* up to the caller's function: it returns a value or raises KeyError.
Callable == 1
Raises == -2
Outcomes == Values \cup {Raises}

\* ------------------------------------------------------- dict primitives
EmptyDict == [k \in {} |-> None]

DictSet(d, k, v) == [x \in (DOMAIN d) \cup {k} |-> IF x = k THEN v ELSE d[x]]

DictDel(d, k) == [x \in (DOMAIN d) \ {k} |-> d[x]]

\* ------------------------------------------------------- heap primitives
\* A fresh list object gets a handle that no live object has.  Which one is
\* not observable; the link made for `key' takes handle key + 1 when that is
\* free and the least free handle above those otherwise.
Alloc(h, key) ==
  IF key + 1 \notin DOMAIN h THEN key + 1
  ELSE CHOOSE n \in (MaxKey + 2)..(MaxKey + 2 + Cardinality(DOMAIN h)) :
         /\ n \notin DOMAIN h
         /\ \A m \in (MaxKey + 2)..(MaxKey + 2 + Cardinality(DOMAIN h)) :
              m \notin DOMAIN h => n <= m

\* Handles stored in the PREV/NEXT slots of a (non-emptied) link.
Refs(h, n) == IF Len(h[n]) = 3 THEN {h[n][PREV], h[n][NEXT]} ELSE {}

RECURSIVE Reach(_, _)
Reach(h, S) ==
  LET T == S \cup UNION {Refs(h, n) : n \in S}
  IN IF T = S THEN S ELSE Reach(h, T)

\* The links an instance refers to: its sentinel and the values of __map.
\* An instance that does not exist (root = NoHandle) refers to none.
NoHandle == -1
ObjRoots(o) ==
  IF o.root = NoHandle THEN {}
  ELSE {o.root} \cup {o.map[k] : k \in DOMAIN o.map}

\* Links nothing refers to any more are reclaimed by the runtime: what stays
\* is what can be reached from the referrers R.
Sweep(h, R) == [n \in Reach(h, R) |-> h[n]]

Collect(h, o) == Sweep(h, ObjRoots(o))

\* -------------------------------------------------------------- __init__
\* root = []; root[:] = [root, root, None]; __map = {}; no initial items.
NewRoot == 0
InitHeap == [n \in {NewRoot} |-> <<NewRoot, NewRoot, None>>]
InitOd == [root |-> NewRoot, map |-> EmptyDict, dict |-> EmptyDict]

\* Result of one method call: the new heap and object, the exception raised
\* ("none" when the call returns) and the returned value.
Result(h, o, e, r) == [heap |-> h, od |-> o, exc |-> e, ret |-> r]

\* The same, with the number of times default_factory was called.
ResultCalls(h, o, e, r, c) ==
  [heap |-> h, od |-> o, exc |-> e, ret |-> r, calls |-> c]

CallsOf(r) == IF "calls" \in DOMAIN r THEN r.calls ELSE 0

\* A local variable: x is evaluated once and F applied to its value.
Bind(x, F(_)) == CHOOSE y \in {F(v) : v \in {x}} : TRUE

\* ----------------------------------------------------------- __getitem__
\* inherited dict.__getitem__
GetItem(h, o, key) ==
  IF key \in DOMAIN o.dict
  THEN Result(h, o, "none", o.dict[key])
  ELSE Result(h, o, "KeyError", None)

\* inherited dict.__contains__
Contains(o, key) == key \in DOMAIN o.dict

\* ----------------------------------------------------------- __setitem__
\* SetItem with the new link spliced in after the sentinel (at the head).
SetItemAtHead(h, o, key, value) ==
  IF ~Contains(o, key)
  THEN LET root == o.root
           first == h[root][NEXT]
           link == Alloc(h, key)
           h1 == [n \in (DOMAIN h) \cup {link} |->
                    IF n = link THEN <<root, first, key>> ELSE h[n]]
           h2 == [h1 EXCEPT ![first][PREV] = link]
           h3 == [h2 EXCEPT ![root][NEXT] = link]
           o1 == [o EXCEPT !.map = DictSet(o.map, key, link)]
       IN Result(h3, [o1 EXCEPT !.dict = DictSet(o1.dict, key, value)],
                 "none", None)
  ELSE Result(h, [o EXCEPT !.dict = DictSet(o.dict, key, value)],
              "none", None)

\* SetItem that moves a key it overwrites to the end of the list.
SetItemMovesToEnd(h, o, key, value) ==
  LET h0 == IF Contains(o, key)
            THEN LET link == o.map[key]
                     h1 == [h EXCEPT ![h[link][PREV]][NEXT] = h[link][NEXT]]
                 IN [n \in (DOMAIN h) \ {link} |->
                       IF n = h[link][NEXT]
                       THEN [h1[n] EXCEPT ![PREV] = h[link][PREV]]
                       ELSE h1[n]]
            ELSE h
      root == o.root
      last == h0[root][PREV]
      link == Alloc(h0, key)
      h1 == [n \in (DOMAIN h0) \cup {link} |->
               IF n = link THEN <<last, root, key>> ELSE h0[n]]
      h2 == [h1 EXCEPT ![last][NEXT] = link]
      h3 == [h2 EXCEPT ![root][PREV] = link]
      o1 == [o EXCEPT !.map = DictSet(o.map, key, link)]
  IN Result(h3, [o1 EXCEPT !.dict = DictSet(o1.dict, key, value)],
            "none", None)

SetItem(h, o, key, value) ==
  IF ~Contains(o, key)
  THEN LET root == o.root
           last == h[root][PREV]
           link == Alloc(h, key)
           \* [last, root, key] is built first, then assigned left to right
           \* to last[1], root[0] and __map[key]
           h1 == [n \in (DOMAIN h) \cup {link} |->
                    IF n = link THEN <<last, root, key>> ELSE h[n]]
           h2 == [h1 EXCEPT ![last][NEXT] = link]
           h3 == [h2 EXCEPT ![root][PREV] = link]
           o1 == [o EXCEPT !.map = DictSet(o.map, key, link)]
       IN Result(h3, [o1 EXCEPT !.dict = DictSet(o1.dict, key, value)],
                 "none", None)
  ELSE Result(h, [o EXCEPT !.dict = DictSet(o.dict, key, value)],
              "none", None)

\* ----------------------------------------------------------- __delitem__
\* DelItem that leaves the predecessor's NEXT pointing at the removed link.
DelItemKeepsForward(h, o, key) ==
  IF key \notin DOMAIN o.dict
  THEN Result(h, o, "KeyError", None)
  ELSE LET o1 == [o EXCEPT !.dict = DictDel(o.dict, key)]
           link == o1.map[key]
           link_prev == h[link][PREV]
           link_next == h[link][NEXT]
           o2 == [o1 EXCEPT !.map = DictDel(o1.map, key)]
           h2 == [h EXCEPT ![link_next][PREV] = link_prev]
       IN Result(h2, o2, "none", None)

\* DelItem that leaves the successor's PREV pointing at the removed link.
DelItemKeepsBackward(h, o, key) ==
  IF key \notin DOMAIN o.dict
  THEN Result(h, o, "KeyError", None)
  ELSE LET o1 == [o EXCEPT !.dict = DictDel(o.dict, key)]
           link == o1.map[key]
           link_prev == h[link][PREV]
           link_next == h[link][NEXT]
           o2 == [o1 EXCEPT !.map = DictDel(o1.map, key)]
           h2 == [h EXCEPT ![link_prev][NEXT] = link_next]
       IN Result(h2, o2, "none", None)

\* DelItem that returns normally when the key is absent.
DelItemQuiet(h, o, key) ==
  IF key \notin DOMAIN o.dict
  THEN Result(h, o, "none", None)
  ELSE LET o1 == [o EXCEPT !.dict = DictDel(o.dict, key)]
           link == o1.map[key]
           link_prev == h[link][PREV]
           link_next == h[link][NEXT]
           o2 == [o1 EXCEPT !.map = DictDel(o1.map, key)]
           h1 == [h EXCEPT ![link_prev][NEXT] = link_next]
           h2 == [h1 EXCEPT ![link_next][PREV] = link_prev]
       IN Result(h2, o2, "none", None)

\* DelItem that also empties the removed link, as clear() does (del link[:]).
DelItemEmptiesLink(h, o, key) ==
  IF key \notin DOMAIN o.dict
  THEN Result(h, o, "KeyError", None)
  ELSE LET o1 == [o EXCEPT !.dict = DictDel(o.dict, key)]
           link == o1.map[key]
           link_prev == h[link][PREV]
           link_next == h[link][NEXT]
           o2 == [o1 EXCEPT !.map = DictDel(o1.map, key)]
           h1 == [h EXCEPT ![link_prev][NEXT] = link_next]
           h2 == [h1 EXCEPT ![link_next][PREV] = link_prev]
       IN Result([h2 EXCEPT ![link] = <<>>], o2, "none", None)

DelItem(h, o, key) ==
  IF key \notin DOMAIN o.dict
  THEN Result(h, o, "KeyError", None)          \* dict_delitem raises
  ELSE LET o1 == [o EXCEPT !.dict = DictDel(o.dict, key)]
           link == o1.map[key]
           link_prev == h[link][PREV]
           link_next == h[link][NEXT]
           o2 == [o1 EXCEPT !.map = DictDel(o1.map, key)]
           h1 == [h EXCEPT ![link_prev][NEXT] = link_next]
           h2 == [h1 EXCEPT ![link_next][PREV] = link_prev]
       IN Result(h2, o2, "none", None)

\* ----------------------------------------------------------------- clear
\* del node[:] on every link of __map
RECURSIVE EmptyLinks(_, _)
EmptyLinks(h, S) ==
  IF S = {} THEN h
  ELSE LET node == CHOOSE n \in S : TRUE
       IN EmptyLinks([h EXCEPT ![node] = <<>>], S \ {node})

\* Clear without `root[:] = [root, root, None]'.
ClearKeepsRoot(h, o) ==
  LET h1 == EmptyLinks(h, {o.map[k] : k \in DOMAIN o.map})
      o1 == [o EXCEPT !.map = EmptyDict]
      o2 == [o1 EXCEPT !.dict = EmptyDict]
  IN Result(h1, o2, "none", None)

Clear(h, o) ==
  LET h1 == EmptyLinks(h, {o.map[k] : k \in DOMAIN o.map})
      root == o.root
      h2 == [h1 EXCEPT ![root] = <<root, root, None>>]
      o1 == [o EXCEPT !.map = EmptyDict]
      o2 == [o1 EXCEPT !.dict = EmptyDict]
  IN Result(h2, o2, "none", None)

\* --------------------------------------------------------------- popitem
\* PopItem that ignores `last' and always takes the tail.
PopItemAlwaysLast(h, o, lastFlag) ==
  IF DOMAIN o.dict = {}
  THEN Result(h, o, "KeyError", None)
  ELSE LET root == o.root
           link == h[root][PREV]
           link_prev == h[link][PREV]
           h1 == [h EXCEPT ![link_prev][NEXT] = root]
           h2 == [h1 EXCEPT ![root][PREV] = link_prev]
           key == h2[link][KEY]
           o1 == [o EXCEPT !.map = DictDel(o.map, key)]
           value == o1.dict[key]
           o2 == [o1 EXCEPT !.dict = DictDel(o1.dict, key)]
       IN Result(h2, o2, "none", <<key, value>>)

\* PopItem that returns (None, None) from an empty map instead of raising.
PopItemNoRaise(h, o, lastFlag) ==
  IF DOMAIN o.dict = {}
  THEN Result(h, o, "none", <<None, None>>)
  ELSE LET root == o.root
           link == IF lastFlag THEN h[root][PREV] ELSE h[root][NEXT]
           h2 == IF lastFlag
                 THEN LET link_prev == h[link][PREV]
                          h1 == [h EXCEPT ![link_prev][NEXT] = root]
                      IN [h1 EXCEPT ![root][PREV] = link_prev]
                 ELSE LET link_next == h[link][NEXT]
                          h1 == [h EXCEPT ![root][NEXT] = link_next]
                      IN [h1 EXCEPT ![link_next][PREV] = root]
           key == h2[link][KEY]
           o1 == [o EXCEPT !.map = DictDel(o.map, key)]
           value == o1.dict[key]
           o2 == [o1 EXCEPT !.dict = DictDel(o1.dict, key)]
       IN Result(h2, o2, "none", <<key, value>>)

\* PopItem whose FIFO branch leaves the new head's PREV at the removed link.
PopItemFirstKeepsPrev(h, o, lastFlag) ==
  IF DOMAIN o.dict = {}
  THEN Result(h, o, "KeyError", None)
  ELSE LET root == o.root
           link == IF lastFlag THEN h[root][PREV] ELSE h[root][NEXT]
           h2 == IF lastFlag
                 THEN LET link_prev == h[link][PREV]
                          h1 == [h EXCEPT ![link_prev][NEXT] = root]
                      IN [h1 EXCEPT ![root][PREV] = link_prev]
                 ELSE LET link_next == h[link][NEXT]
                      IN [h EXCEPT ![root][NEXT] = link_next]
           key == h2[link][KEY]
           o1 == [o EXCEPT !.map = DictDel(o.map, key)]
           value == o1.dict[key]
           o2 == [o1 EXCEPT !.dict = DictDel(o1.dict, key)]
       IN Result(h2, o2, "none", <<key, value>>)

PopItem(h, o, lastFlag) ==
  IF DOMAIN o.dict = {}
  THEN Result(h, o, "KeyError", None)          \* "dictionary is empty"
  ELSE LET root == o.root
           link == IF lastFlag THEN h[root][PREV] ELSE h[root][NEXT]
           h2 == IF lastFlag
                 THEN LET link_prev == h[link][PREV]
                          h1 == [h EXCEPT ![link_prev][NEXT] = root]
                      IN [h1 EXCEPT ![root][PREV] = link_prev]
                 ELSE LET link_next == h[link][NEXT]
                          h1 == [h EXCEPT ![root][NEXT] = link_next]
                      IN [h1 EXCEPT ![link_next][PREV] = root]
           key == h2[link][KEY]
           o1 == [o EXCEPT !.map = DictDel(o.map, key)]
           value == o1.dict[key]
           o2 == [o1 EXCEPT !.dict = DictDel(o1.dict, key)]
       IN Result(h2, o2, "none", <<key, value>>)

\* ---------------------------------------------------- DefaultOrderedDict
\* An instance of DefaultOrderedDict carries default_factory.
IsDefault(o) == "default_factory" \in DOMAIN o

\* DefaultOrderedDict.__init__ with no initial items.
InitDefaultOd(factory) ==
  [root |-> NewRoot, map |-> EmptyDict, dict |-> EmptyDict,
   default_factory |-> factory]

\* __missing__: outs[1] is what the call of default_factory does.  A call the
\* caller gave no outcome for is reported as "Unscripted".
\* (First, __missing__ that returns the factory's value without storing it.)
MissingStoresNothing(h, o, key, outs) ==
  IF o.default_factory = None
  THEN ResultCalls(h, o, "KeyError", None, 0)
  ELSE IF outs = <<>>
  THEN ResultCalls(h, o, "Unscripted", None, 1)
  ELSE IF outs[1] = Raises
  THEN ResultCalls(h, o, "KeyError", None, 1)
  ELSE ResultCalls(h, o, "none", outs[1], 1)

\* __missing__ that, without a factory, stores and returns None.
MissingNoneStoresNone(h, o, key, outs) ==
  IF o.default_factory = None
  THEN LET st == SetItem(h, o, key, None)
       IN ResultCalls(st.heap, st.od, st.exc, None, 0)
  ELSE IF outs = <<>>
  THEN ResultCalls(h, o, "Unscripted", None, 1)
  ELSE IF outs[1] = Raises
  THEN ResultCalls(h, o, "KeyError", None, 1)
  ELSE LET st == SetItem(h, o, key, outs[1])
       IN ResultCalls(st.heap, st.od, st.exc, outs[1], 1)

Missing(h, o, key, outs) ==
  IF o.default_factory = None
  THEN ResultCalls(h, o, "KeyError", None, 0)
  ELSE IF outs = <<>>
  THEN ResultCalls(h, o, "Unscripted", None, 1)
  ELSE IF outs[1] = Raises
  THEN ResultCalls(h, o, "KeyError", None, 1)   \* raised by the factory
  ELSE LET st == SetItem(h, o, key, outs[1])    \* self[key] = value
       IN ResultCalls(st.heap, st.od, st.exc, outs[1], 1)

\* dict.__getitem__ on an instance of a dict subclass that defines
\* __missing__: an absent key is handed to __missing__.
DictGetItem(h, o, key, outs) ==
  IF key \in DOMAIN o.dict
  THEN ResultCalls(h, o, "none", o.dict[key], 0)
  ELSE Missing(h, o, key, outs)

\* DefaultOrderedDict.__getitem__: OrderedDict.__getitem__ is dict.__getitem__;
\* a KeyError that comes out of it is caught and __missing__ is called.
DefaultGetItem(h, o, key, outs) ==
  Bind(DictGetItem(h, o, key, outs), LAMBDA first :
    IF first.exc = "KeyError"
    THEN Bind(Missing(first.heap, first.od, key,
                      SubSeq(outs, first.calls + 1, Len(outs))),
              LAMBDA again :
                ResultCalls(again.heap, again.od, again.exc, again.ret,
                            first.calls + again.calls))
    ELSE first)

\* self[key]: the __getitem__ of the instance's class.
Subscript(h, o, key, outs) ==
  IF IsDefault(o)
  THEN DefaultGetItem(h, o, key, outs)
  ELSE LET g == GetItem(h, o, key)
       IN ResultCalls(g.heap, g.od, g.exc, g.ret, 0)

\* ------------------------------------------------------------------- pop
\* Pop whose `no default' marker is None: a default of None is not honoured.
PopNoneIsMissing(h, o, key, default) ==
  IF Contains(o, key)
  THEN Bind(Subscript(h, o, key, <<>>), LAMBDA result :
         IF result.exc # "none" THEN result
         ELSE Bind(DelItem(result.heap, result.od, key), LAMBDA d :
                ResultCalls(d.heap, d.od, d.exc, result.ret, result.calls)))
  ELSE IF default = Marker \/ default = None
       THEN Result(h, o, "KeyError", None)
       ELSE Result(h, o, "none", default)

Pop(h, o, key, default) ==
  IF Contains(o, key)
  THEN Bind(Subscript(h, o, key, <<>>), LAMBDA result :   \* result = self[key]
         IF result.exc # "none" THEN result
         ELSE Bind(DelItem(result.heap, result.od, key), LAMBDA d :  \* del self[key]
                ResultCalls(d.heap, d.od, d.exc, result.ret, result.calls)))
  ELSE IF default = Marker
       THEN Result(h, o, "KeyError", None)
       ELSE Result(h, o, "none", default)

\* ------------------------------------------------------------ setdefault
\* SetDefault that stores the default over a value already present.
SetDefaultOverwrites(h, o, key, default) ==
  LET s == SetItem(h, o, key, default)
  IN Result(s.heap, s.od, s.exc, default)

\* SetDefault written as `try: return self[key] / except KeyError: store'.
SetDefaultSubscriptsFirst(h, o, key, default) ==
  Bind(Subscript(h, o, key, <<>>), LAMBDA g :
    IF g.exc = "none" THEN g
    ELSE Bind(SetItem(g.heap, g.od, key, default), LAMBDA s :
           ResultCalls(s.heap, s.od, s.exc, default, g.calls)))

SetDefault(h, o, key, default) ==
  IF Contains(o, key)
  THEN Subscript(h, o, key, <<>>)
  ELSE LET s == SetItem(h, o, key, default)
       IN Result(s.heap, s.od, s.exc, default)

\* -------------------------------------------------------------- __iter__
\* The generator, run to exhaustion.  ok is FALSE when it does not finish
\* normally (a link without a KEY/NEXT slot, or no return to the sentinel).
RECURSIVE IterFrom(_, _, _, _)
IterFrom(h, root, curr, fuel) ==
  IF curr = root THEN [keys |-> <<>>, ok |-> TRUE]
  ELSE IF fuel = 0 \/ curr \notin DOMAIN h \/ Len(h[curr]) # 3
       THEN [keys |-> <<>>, ok |-> FALSE]
       ELSE LET rest == IterFrom(h, root, h[curr][NEXT], fuel - 1)
            IN [keys |-> <<h[curr][KEY]>> \o rest.keys, ok |-> rest.ok]

Iter(h, o) == IterFrom(h, o.root, h[o.root][NEXT], Cardinality(DOMAIN h))

\* One next() on the generator of __iter__.  A generator that has not run
\* yet reads root[1]; a suspended one resumes after its yield with
\* curr = curr[1].  Reading a slot of an emptied link raises IndexError.
IterStep(h, o, i) ==
  LET bad == i.state = "running" /\ Len(h[i.curr]) # 3
      curr == IF i.state = "created" THEN h[o.root][NEXT]
              ELSE IF bad THEN NoHandle ELSE h[i.curr][NEXT]
  IN IF bad
     THEN [it |-> [i EXCEPT !.state = "error", !.curr = NoHandle],
           exc |-> "IndexError", ret |-> None]
     ELSE IF curr = o.root
     THEN [it |-> [i EXCEPT !.state = "done", !.curr = NoHandle],
           exc |-> "StopIteration", ret |-> None]
     ELSE IF Len(h[curr]) # 3
     THEN [it |-> [i EXCEPT !.state = "error", !.curr = NoHandle],
           exc |-> "IndexError", ret |-> None]
     ELSE [it |-> [i EXCEPT !.state = "running", !.curr = curr,
                            !.yielded = Append(i.yielded, h[curr][KEY])],
           exc |-> "none", ret |-> h[curr][KEY]]

\* ---------------------------------------------------------- __reversed__
\* The generator, run to exhaustion, walking the PREV slots.
RECURSIVE ReversedFrom(_, _, _, _)
ReversedFrom(h, root, curr, fuel) ==
  IF curr = root THEN [keys |-> <<>>, ok |-> TRUE]
  ELSE IF fuel = 0 \/ curr \notin DOMAIN h \/ Len(h[curr]) # 3
       THEN [keys |-> <<>>, ok |-> FALSE]
       ELSE LET rest == ReversedFrom(h, root, h[curr][PREV], fuel - 1)
            IN [keys |-> <<h[curr][KEY]>> \o rest.keys, ok |-> rest.ok]

Reversed(h, o) ==
  ReversedFrom(h, o.root, h[o.root][PREV], Cardinality(DOMAIN h))

\* keys() == list(self)
KeysOf(h, o) == Iter(h, o).keys

\* A generator of __iter__ that has not run yet.
NewIter(h, o) ==
  [state |-> "created", curr |-> NoHandle, yielded |-> <<>>,
   start |-> KeysOf(h, o)]

\* ----------------------------------------------------------------- items
\* [(key, self[key]) for key in self]: the generator is stepped and self[key]
\* evaluated for each key it yields.
RECURSIVE ItemsLoop(_, _, _, _, _, _)
ItemsLoop(h, o, i, acc, calls, fuel) ==
  Bind(IterStep(h, o, i), LAMBDA step :
    IF step.exc = "StopIteration"
    THEN ResultCalls(h, o, "none", acc, calls)
    ELSE IF step.exc # "none" \/ fuel = 0
    THEN ResultCalls(h, o, "IndexError", <<>>, calls)
    ELSE Bind(Subscript(h, o, step.ret, <<>>), LAMBDA g :
           IF g.exc # "none"
           THEN ResultCalls(g.heap, g.od, g.exc, <<>>, calls + g.calls)
           ELSE ItemsLoop(g.heap, g.od, step.it,
                          Append(acc, <<step.ret, g.ret>>),
                          calls + g.calls, fuel - 1)))

Items(h, o) ==
  Bind(NewIter(h, o), LAMBDA i :
    ItemsLoop(h, o, i, <<>>, 0, Cardinality(DOMAIN h)))

\* [self[key] for key in self]
ValuesOf(h, o) ==
  Bind(Items(h, o), LAMBDA r :
    ResultCalls(r.heap, r.od, r.exc,
                [n \in 1..Len(r.ret) |-> r.ret[n][2]], r.calls))

\* ---------------------------------------------------------------- update
\* update(self, other) with other a dict instance:
\*   for key in other: self[key] = other[key]
\* The result carries both instances.
RECURSIVE UpdateLoop(_, _, _, _, _, _)
UpdateLoop(h, self, other, i, calls, fuel) ==
  Bind(IterStep(h, other, i), LAMBDA step :
    IF step.exc = "StopIteration"
    THEN [heap |-> h, self |-> self, other |-> other, exc |-> "none",
          calls |-> calls]
    ELSE IF step.exc # "none" \/ fuel = 0
    THEN [heap |-> h, self |-> self, other |-> other, exc |-> "IndexError",
          calls |-> calls]
    ELSE Bind(Subscript(h, other, step.ret, <<>>), LAMBDA g :
           IF g.exc # "none"
           THEN [heap |-> g.heap, self |-> self, other |-> g.od,
                 exc |-> g.exc, calls |-> calls + g.calls]
           ELSE Bind(SetItem(g.heap, self, step.ret, g.ret), LAMBDA st :
                  UpdateLoop(st.heap, st.od, g.od, step.it,
                             calls + g.calls, fuel - 1))))

Update(h, self, other) ==
  Bind(NewIter(h, other), LAMBDA i :
    UpdateLoop(h, self, other, i, 0, Cardinality(DOMAIN h)))

\* update(self, other) with other a list of pairs:
\*   for key, value in other: self[key] = value
RECURSIVE UpdatePairs(_, _, _)
UpdatePairs(h, self, pairs) ==
  IF pairs = <<>> THEN Result(h, self, "none", None)
  ELSE Bind(SetItem(h, self, pairs[1][1], pairs[1][2]), LAMBDA st :
         UpdatePairs(st.heap, st.od, Tail(pairs)))

\* ------------------------------------------------------------------ copy
\* The sentinel of a new instance is a new list.
AllocRoot(h) ==
  CHOOSE n \in (MaxKey + 2)..(MaxKey + 2 + Cardinality(DOMAIN h)) :
    /\ n \notin DOMAIN h
    /\ \A m \in (MaxKey + 2)..(MaxKey + 2 + Cardinality(DOMAIN h)) :
         m \notin DOMAIN h => n <= m

\* OrderedDict.__init__(other) on a new instance.
Construct(h, other) ==
  Bind(AllocRoot(h), LAMBDA root :
    Bind([n \in (DOMAIN h) \cup {root} |->
            IF n = root THEN <<root, root, None>> ELSE h[n]],
         LAMBDA h1 :
           Update(h1, [root |-> root, map |-> EmptyDict, dict |-> EmptyDict],
                  other)))

\* copy that takes over the original's sentinel and node index.
CopySharesLinks(h, o) ==
  [heap |-> h, od |-> o, new |-> o, exc |-> "none", calls |-> 0]

\* DefaultOrderedDict copy that does not pass default_factory on.
CopyDropsFactory(h, o) ==
  Bind(Construct(h, o), LAMBDA c :
    [heap |-> c.heap, od |-> c.other,
     new |-> IF IsDefault(o)
             THEN [root |-> c.self.root, map |-> c.self.map,
                   dict |-> c.self.dict, default_factory |-> None]
             ELSE c.self,
     exc |-> c.exc, calls |-> c.calls])

\* OrderedDict.copy is self.__class__(self); DefaultOrderedDict.copy is
\* type(self)(self.default_factory, self), whose __init__ runs
\* OrderedDict.__init__(self) and then sets default_factory.
Copy(h, o) ==
  Bind(Construct(h, o), LAMBDA c :
    [heap |-> c.heap, od |-> c.other,
     new |-> IF IsDefault(o)
             THEN [root |-> c.self.root, map |-> c.self.map,
                   dict |-> c.self.dict,
                   default_factory |-> o.default_factory]
             ELSE c.self,
     exc |-> c.exc, calls |-> c.calls])

\* ---------------------------------------------------------- __eq__, __ne__
\* dict.__eq__(self, other) with other a plain dict d: the same number of
\* entries, and every key of self is in d with an equal value.
DictEq(self, d) ==
  /\ Cardinality(DOMAIN self.dict) = Cardinality(DOMAIN d)
  /\ \A k \in DOMAIN self.dict : k \in DOMAIN d /\ self.dict[k] = d[k]

\* (First, an __eq__ that takes the dict branch for another OrderedDict too.)
EqIgnoresOrder(h, self, other) == DictEq(self, other.dict)

\* self == other with other an OrderedDict:
\*   len(self) == len(other) and self.items() == other.items()
Eq(h, self, other) ==
  /\ Cardinality(DOMAIN self.dict) = Cardinality(DOMAIN other.dict)
  /\ Items(h, self).ret = Items(h, other).ret

\* self != other is not self == other.
Ne(h, self, other) == ~Eq(h, self, other)

\* ------------------------------------------------------------ __reduce__
\* What __reduce__ returns: the class, the constructor arguments and, for
\* DefaultOrderedDict, the items to set afterwards (hasitems).
\* (First, a __reduce__ that emits the pairs in the order of the hash table,
\* here by ascending key, instead of walking the links.)
RECURSIVE SortedPairs(_)
SortedPairs(d) ==
  IF DOMAIN d = {} THEN <<>>
  ELSE LET k == CHOOSE x \in DOMAIN d : \A y \in DOMAIN d : x <= y
       IN <<(<<k, d[k]>>)>> \o SortedPairs(DictDel(d, k))

ReduceUnordered(h, o) ==
  IF IsDefault(o)
  THEN ResultCalls(h, o, "none",
         [cls |-> "DefaultOrderedDict",
          args |-> IF o.default_factory = None THEN <<>>
                   ELSE <<o.default_factory>>,
          hasitems |-> TRUE, items |-> SortedPairs(o.dict)], 0)
  ELSE ResultCalls(h, o, "none",
         [cls |-> "OrderedDict", args |-> <<SortedPairs(o.dict)>>,
          hasitems |-> FALSE, items |-> <<>>], 0)

Reduce(h, o) ==
  Bind(Items(h, o), LAMBDA its :
    IF its.exc # "none" THEN its
    ELSE IF IsDefault(o)
    THEN ResultCalls(its.heap, its.od, "none",
           [cls |-> "DefaultOrderedDict",
            args |-> IF o.default_factory = None THEN <<>>
                     ELSE <<o.default_factory>>,
            hasitems |-> TRUE, items |-> its.ret], its.calls)
    ELSE ResultCalls(its.heap, its.od, "none",
           [cls |-> "OrderedDict", args |-> <<its.ret>>,
            hasitems |-> FALSE, items |-> <<>>], its.calls))

\* The instance a reduce value stands for: cls(*args), then d[key] = value
\* for the items, in their order.
Rebuild(red) ==
  IF red.cls = "OrderedDict"
  THEN UpdatePairs(InitHeap, InitOd, red.args[1])
  ELSE UpdatePairs(InitHeap,
                   InitDefaultOd(IF red.args = <<>> THEN None ELSE red.args[1]),
                   red.items)

\* A freshly constructed map after the recorded sets, in order.
RECURSIVE Replay(_)
Replay(sets) ==
  IF sets = <<>> THEN Result(InitHeap, InitOd, "none", None)
  ELSE LET r == Replay(SubSeq(sets, 1, Len(sets) - 1))
           s == sets[Len(sets)]
       IN SetItem(r.heap, r.od, s[1], s[2])

\* ------------------------------------------------------------------ state
\* heap, od : the links and the OrderedDict instance
\* last     : the latest call, its outcome and what the map looked like before;
\*            again marks a set of the key that the call before it deleted,
\*            revisit a d[key] of the key that the call before it vivified
\* order    : the present keys, by the time each was last inserted while absent
\* run      : the sets applied since the latest clear(), while nothing else
\*            was called (active) and at most MaxSets of them; cleared is
\*            the number of keys that clear() removed
\* cp       : a second instance made by copy() and kept by the caller
\*            (root = NoHandle while there is none)
\* it       : a forward iterator over od that the caller is stepping
VARIABLES heap, od, last, order, run, cp, it

vars == <<heap, od, last, order, run, cp, it>>

NoCopy == [root |-> NoHandle, map |-> EmptyDict, dict |-> EmptyDict]

NoIter == [state |-> "none", curr |-> NoHandle, yielded |-> <<>>,
           start |-> <<>>]

\* The link a suspended generator holds in `curr'.
IterRoots(i) == IF i.state = "running" THEN {i.curr} ELSE {}

\* The links and the instance as they were when the call was made.
Snapshot == [heap |-> heap, od |-> od]

Call(op, key, arg, r) ==
  [op |-> op, key |-> key, arg |-> arg, exc |-> r.exc, ret |-> r.ret,
   pre |-> Snapshot,
   again |-> /\ op = "setitem"
             /\ last.op = "delitem" /\ last.exc = "none" /\ last.key = key,
   calls |-> CallsOf(r),
   revisit |-> /\ op = "subscript" /\ last.op = "subscript"
               /\ last.key = key /\ last.calls > 0 /\ last.exc = "none"]

NoRun == [active |-> FALSE, cleared |-> 0, sets |-> <<>>]

Init ==
  /\ heap = InitHeap
  /\ od = InitOd
  /\ last = [op |-> "init", key |-> None, arg |-> None, exc |-> "none",
             ret |-> None, pre |-> [heap |-> InitHeap, od |-> InitOd],
             again |-> FALSE, calls |-> 0,
             revisit |-> FALSE]
  /\ order = <<>>
  /\ run = NoRun
  /\ cp = NoCopy
  /\ it = NoIter

\* Keys that left the value mapping leave the order; a key that entered it
\* goes last (a call adds at most one key).
Track(d, d2) ==
  LET kept == SelectSeq(order, LAMBDA x : x \in DOMAIN d2)
      added == (DOMAIN d2) \ (DOMAIN d)
  IN IF added = {} THEN kept ELSE Append(kept, CHOOSE k \in added : TRUE)

\* A call on od: its effect on the instance, then the links that neither
\* instance nor the iterator refers to any more are gone.
Commit(r) ==
  \E v \in {r} :
    /\ heap' = Sweep(v.heap, ObjRoots(v.od) \cup ObjRoots(cp) \cup IterRoots(it))
    /\ od' = v.od
    /\ order' = Track(od.dict, v.od.dict)
    /\ UNCHANGED <<cp, it>>

DoSetItem ==
  \E key \in Keys, value \in Values :
    \E r \in {SetItem(heap, od, key, value)} :
    /\ Commit(r)
    /\ last' = Call("setitem", key, value, r)
    /\ run' = IF run.active /\ Len(run.sets) < MaxSets
              THEN [run EXCEPT !.sets = Append(run.sets, <<key, value>>)]
              ELSE NoRun

DoGetItem ==
  \E key \in Keys :
    \E r \in {GetItem(heap, od, key)} :
    /\ Commit(r)
    /\ last' = Call("getitem", key, None, r)
    /\ run' = NoRun

DoDelItem ==
  \E key \in Keys :
    \E r \in {DelItem(heap, od, key)} :
    /\ Commit(r)
    /\ last' = Call("delitem", key, None, r)
    /\ run' = NoRun

DoPopItem ==
  \E lastFlag \in BOOLEAN :
    \E r \in {PopItem(heap, od, lastFlag)} :
    /\ Commit(r)
    /\ last' = Call("popitem", None, lastFlag, r)
    /\ run' = NoRun

DoPop ==
  \E key \in Keys, default \in Defaults :
    \E r \in {Pop(heap, od, key, default)} :
    /\ Commit(r)
    /\ last' = Call("pop", key, default, r)
    /\ run' = NoRun

DoSetDefault ==
  \E key \in Keys, default \in Values :
    \E r \in {SetDefault(heap, od, key, default)} :
    /\ Commit(r)
    /\ last' = Call("setdefault", key, default, r)
    /\ run' = NoRun

DoClear ==
  \E r \in {Clear(heap, od)} :
  /\ Commit(r)
  /\ last' = Call("clear", None, None, r)
  /\ run' = [active |-> TRUE, cleared |-> Cardinality(DOMAIN od.dict),
             sets |-> <<>>]

\* ------------------------------------------------------------ properties
Range(s) == {s[i] : i \in 1..Len(s)}

NoDup(s) == \A i, j \in 1..Len(s) : s[i] = s[j] => i = j

\* The handles of the links a forward walk from the sentinel passes.
RECURSIVE LinksFrom(_, _, _, _)
LinksFrom(h, root, curr, fuel) ==
  IF curr = root \/ fuel = 0 \/ curr \notin DOMAIN h \/ Len(h[curr]) # 3
  THEN <<>>
  ELSE <<curr>> \o LinksFrom(h, root, h[curr][NEXT], fuel - 1)

LinksOf(h, o) ==
  LinksFrom(h, o.root, h[o.root][NEXT], Cardinality(DOMAIN h))

CurKeys == KeysOf(heap, od)
PreKeys == KeysOf(last.pre.heap, last.pre.od)
PreDict == last.pre.od.dict

\* Every binding of d other than key's is the same in e.
SameExcept(d, e, key) ==
  /\ (DOMAIN d) \ {key} = (DOMAIN e) \ {key}
  /\ \A k \in (DOMAIN d) \ {key} : d[k] = e[k]

\* C1 (invariant I1): after any sequence of set, delete, popitem, pop,
\* setdefault and clear, the forward walk from the sentinel returns to the
\* sentinel and yields exactly the keys of the value mapping, each once, in
\* the order in which the present keys were last inserted while absent; the
\* node index has the same key set and maps each key to the link carrying it.
C1_I1 ==
  /\ Iter(heap, od).ok
  /\ CurKeys = order
  /\ NoDup(CurKeys)
  /\ Range(CurKeys) = DOMAIN od.dict
  /\ DOMAIN od.map = DOMAIN od.dict
  /\ Len(LinksOf(heap, od)) = Len(CurKeys)
  /\ \A i \in 1..Len(CurKeys) : od.map[CurKeys[i]] = LinksOf(heap, od)[i]

\* A key was deleted and set again, so two present keys are in an order that
\* is not the order of their first insertion alone: here 2 before 1 before None.
C1_Witness ==
  /\ last.op = "setitem"
  /\ last.again
  /\ CurKeys = <<2, 1, None>>

\* C2 (re-insertion stability, I3): set(k, v2) on a present key k leaves
\* keys() as it was, adds no link, leaves every other binding unchanged and
\* makes get(k) return v2.
C2_ReinsertStable ==
  (last.op = "setitem" /\ last.key \in DOMAIN PreDict) =>
    /\ last.exc = "none"
    /\ CurKeys = PreKeys
    /\ LinksOf(heap, od) = LinksOf(last.pre.heap, last.pre.od)
    /\ DOMAIN heap = DOMAIN last.pre.heap
    /\ od.map = last.pre.od.map
    /\ SameExcept(PreDict, od.dict, last.key)
    /\ GetItem(heap, od, last.key).exc = "none"
    /\ GetItem(heap, od, last.key).ret = last.arg

\* The first of several keys was overwritten with a different value.
C2_Witness ==
  /\ last.op = "setitem"
  /\ Len(PreKeys) >= 2
  /\ last.key = PreKeys[1]
  /\ PreDict[last.key] # last.arg

\* C3 (absent-key insert appends at the tail): set(k, v) on an absent key k
\* yields keys() equal to the previous keys() with k appended, binds k to v
\* and leaves the other bindings unchanged.
C3_AbsentAppends ==
  (last.op = "setitem" /\ last.key \notin DOMAIN PreDict) =>
    /\ last.exc = "none"
    /\ CurKeys = Append(PreKeys, last.key)
    /\ od.dict = DictSet(PreDict, last.key, last.arg)

\* set(1,_); set(2,_); delete(1); set(1,_) ends with keys() = [2, 1]: key 1
\* is set while absent although it is smaller than the key before it.
C3_Witness ==
  /\ last.op = "setitem"
  /\ last.again
  /\ PreKeys = <<2>>
  /\ CurKeys = <<2, 1>>

SentinelAlone(h, o) ==
  /\ h[o.root] = <<o.root, o.root, None>>
  /\ DOMAIN h = {o.root}

Unchanged == heap = last.pre.heap /\ od = last.pre.od

\* C4 (LIFO/FIFO pop): popitem on a non-empty map with keys() = [k1..kn]
\* returns (kn, value of kn) and leaves [k1..kn-1] when last is true, returns
\* (k1, value of k1) and leaves [k2..kn] when last is false; the popped key
\* leaves the value mapping and the node index, the other bindings stay, and
\* for n = 1 the sentinel ends linked to itself.
C4_PopItem ==
  (last.op = "popitem" /\ PreKeys # <<>>) =>
    LET n == Len(PreKeys)
        k == IF last.arg THEN PreKeys[n] ELSE PreKeys[1]
    IN /\ last.exc = "none"
       /\ last.ret = <<k, PreDict[k]>>
       /\ CurKeys = IF last.arg THEN SubSeq(PreKeys, 1, n - 1)
                                ELSE SubSeq(PreKeys, 2, n)
       /\ od.dict = DictDel(PreDict, k)
       /\ DOMAIN od.map = DOMAIN od.dict
       /\ \A j \in DOMAIN od.map : od.map[j] = last.pre.od.map[j]
       /\ n = 1 => SentinelAlone(heap, od)

\* popitem(last=False) took the head of a map of three keys.
C4_Witness ==
  /\ last.op = "popitem"
  /\ last.arg = FALSE
  /\ Len(PreKeys) = 3
  /\ last.ret[1] = PreKeys[1]
  /\ Len(CurKeys) = 2

\* C5 (empty-pop failure): popitem, with last true or false, on an empty map
\* raises KeyError and leaves the map empty with the sentinel linked to itself.
C5_EmptyPop ==
  (last.op = "popitem" /\ DOMAIN PreDict = {}) =>
    /\ last.exc = "KeyError"
    /\ od.dict = EmptyDict
    /\ od.map = EmptyDict
    /\ SentinelAlone(heap, od)
    /\ CurKeys = <<>>

\* popitem(last=False) failed on an empty map.
C5_Witness ==
  /\ last.op = "popitem"
  /\ last.arg = FALSE
  /\ last.exc = "KeyError"
  /\ DOMAIN od.dict = {}

\* C6 (invariant I2, atomic delete): delete(k) of a present key removes k
\* from the value mapping and the node index and unlinks its link in the same
\* step: no link carries k afterwards, keys() is the previous keys() without k
\* and the other bindings are unchanged; in every state the links that exist
\* are exactly the sentinel and the links of the present keys.
C6_AtomicDelete ==
  /\ (last.op = "delitem" /\ last.key \in DOMAIN PreDict) =>
       /\ last.exc = "none"
       /\ od.dict = DictDel(PreDict, last.key)
       /\ od.map = DictDel(last.pre.od.map, last.key)
       /\ CurKeys = SelectSeq(PreKeys, LAMBDA x : x # last.key)
       /\ \A n \in (DOMAIN heap) \ {od.root} :
            Len(heap[n]) = 3 => heap[n][KEY] # last.key
  /\ (DOMAIN heap) \ {od.root} = {od.map[k] : k \in DOMAIN od.map}
  /\ Range(LinksOf(heap, od)) = {od.map[k] : k \in DOMAIN od.dict}
  /\ DOMAIN od.map = DOMAIN od.dict

\* The middle key of three was deleted.
C6_Witness ==
  /\ last.op = "delitem"
  /\ Len(PreKeys) = 3
  /\ last.key = PreKeys[2]
  /\ CurKeys = <<PreKeys[1], PreKeys[3]>>

\* C7: delete(k) and get(k) on an absent key raise KeyError and leave the
\* value mapping, the node index and the links unchanged.
C7_AbsentKeyError ==
  (last.op \in {"delitem", "getitem"} /\ last.key \notin DOMAIN PreDict) =>
    /\ last.exc = "KeyError"
    /\ Unchanged

\* delete of an absent key failed on a map holding other keys.
C7_Witness ==
  /\ last.op = "delitem"
  /\ last.exc = "KeyError"
  /\ Len(CurKeys) = 2
  /\ last.key \notin Range(CurKeys)

\* C8 (pop): on a present key pop(k) and pop(k, d) return the stored value and
\* leave the map as delete(k) would; on an absent key a supplied default is
\* returned, whatever its value, and the map is unchanged; on an absent key
\* with no default the call raises KeyError and the map is unchanged.
C8_PopKey ==
  last.op = "pop" =>
    IF last.key \in DOMAIN PreDict
    THEN /\ last.exc = "none"
         /\ last.ret = PreDict[last.key]
         /\ od = DelItem(last.pre.heap, last.pre.od, last.key).od
         /\ heap = Collect(DelItem(last.pre.heap, last.pre.od, last.key).heap,
                           od)
         /\ CurKeys = SelectSeq(PreKeys, LAMBDA x : x # last.key)
         /\ od.dict = DictDel(PreDict, last.key)
    ELSE IF last.arg # Marker
         THEN last.exc = "none" /\ last.ret = last.arg /\ Unchanged
         ELSE last.exc = "KeyError" /\ Unchanged

\* pop(k, None) on an absent key returned None from a non-empty map.
C8_Witness ==
  /\ last.op = "pop"
  /\ last.key \notin DOMAIN PreDict
  /\ last.arg = None
  /\ last.exc = "none"
  /\ last.ret = None
  /\ CurKeys # <<>>

\* C9 (setdefault): on a present key it returns the stored value and leaves
\* values and order unchanged; on an absent key it inserts (k, d) at the tail
\* and returns d.
C9_SetDefault ==
  last.op = "setdefault" =>
    /\ last.exc = "none"
    /\ IF last.key \in DOMAIN PreDict
       THEN last.ret = PreDict[last.key] /\ Unchanged
       ELSE /\ last.ret = last.arg
            /\ CurKeys = Append(PreKeys, last.key)
            /\ od.dict = DictSet(PreDict, last.key, last.arg)

\* setdefault on a present key was given a default other than the stored value.
C9_Witness ==
  /\ last.op = "setdefault"
  /\ last.key \in DOMAIN PreDict
  /\ PreDict[last.key] # last.arg
  /\ last.ret = PreDict[last.key]

\* C10 (clear): clear() leaves the value mapping and the node index empty and
\* the sentinel linked to itself, and the sets applied afterwards produce the
\* keys() and bindings that the same sets produce on a freshly constructed map.
C10_Clear ==
  /\ last.op = "clear" =>
       /\ last.exc = "none"
       /\ od.dict = EmptyDict
       /\ od.map = EmptyDict
       /\ heap[od.root][PREV] = od.root
       /\ heap[od.root][NEXT] = od.root
  /\ run.active =>
       LET fresh == Replay(run.sets)
       IN /\ Iter(heap, od).ok
          /\ CurKeys = KeysOf(fresh.heap, fresh.od)
          /\ od.dict = fresh.od.dict

\* Two different keys were set after a clear() that removed two or more keys.
C10_Witness ==
  /\ run.active
  /\ run.cleared >= 2
  /\ Len(run.sets) = 2
  /\ run.sets[1][1] # run.sets[2][1]

Reverse(s) == [i \in 1..Len(s) |-> s[Len(s) + 1 - i]]

\* C17: after any sequence of set, delete, popitem (either end), pop and
\* clear, the backward walk from the sentinel finishes and yields exactly the
\* reverse of what the forward walk yields, and for every link, the sentinel
\* included, the NEXT of its predecessor and the PREV of its successor are
\* that link.
C17_ReversedMirrors ==
  /\ Reversed(heap, od).ok
  /\ Iter(heap, od).ok
  /\ Reversed(heap, od).keys = Reverse(CurKeys)
  /\ \A n \in Reach(heap, ObjRoots(od)) :
       /\ Len(heap[n]) = 3
       /\ heap[heap[n][NEXT]][PREV] = n
       /\ heap[heap[n][PREV]][NEXT] = n

\* popitem(last=False) took the head of three keys; the two that remain are
\* walked backward in the opposite order.
C17_Witness ==
  /\ last.op = "popitem"
  /\ last.arg = FALSE
  /\ last.exc = "none"
  /\ Len(CurKeys) = 2
  /\ Reversed(heap, od).keys = <<CurKeys[2], CurKeys[1]>>

Next ==
  \/ DoSetItem
  \/ DoGetItem
  \/ DoDelItem
  \/ DoPopItem
  \/ DoPop
  \/ DoSetDefault
  \/ DoClear

Spec == Init /\ [][Next]_vars

\* ------------------------------------------- update, __init__ again, fromkeys
\* The arguments a caller passes after self: a list of (key, value) pairs, or
\* a plain dict, given by its items in its own iteration order (its keys are
\* distinct). Each holds at most MaxSets pairs.
PairLists == UNION {[1..n -> Keys \X Values] : n \in 0..MaxSets}

KeysGiven(items) == [n \in 1..Len(items) |-> items[n][1]]

Others ==
  {[kind |-> "pairs", items |-> p] : p \in PairLists}
    \cup {[kind |-> "dict", items |-> p] :
            p \in {q \in PairLists : NoDup(KeysGiven(q))}}

\* other[key] on a plain dict with these items.
DictLookup(items, key) ==
  items[CHOOSE n \in 1..Len(items) : items[n][1] = key][2]

\* for key in other: self[key] = other[key]
RECURSIVE UpdateKeys(_, _, _, _)
UpdateKeys(h, self, keys, items) ==
  IF keys = <<>> THEN Result(h, self, "none", None)
  ELSE Bind(SetItem(h, self, keys[1], DictLookup(items, keys[1])), LAMBDA st :
         UpdateKeys(st.heap, st.od, Tail(keys), items))

\* od.update(*args) as the caller makes it; args are the positional arguments
\* after self, and no keyword arguments are given. Without an argument other
\* is the empty tuple.
UpdateCall(h, self, args) ==
  IF Len(args) + 1 > 2
  THEN Result(h, self, "TypeError", None)
  ELSE IF args = <<>>
  THEN UpdatePairs(h, self, <<>>)
  ELSE IF args[1].kind = "dict"
  THEN UpdateKeys(h, self, KeysGiven(args[1].items), args[1].items)
  ELSE UpdatePairs(h, self, args[1].items)

\* od.__init__(*args) on an instance that has its sentinel already: the
\* sentinel and the node index are kept, and the arguments go to update.
InitAgain(h, self, args) ==
  IF Len(args) > 1
  THEN Result(h, self, "TypeError", None)
  ELSE UpdateCall(h, self, args)

\* OrderedDict.fromkeys(iterable, value): d = cls(), then d[key] = value for
\* each key. od in the result is the new instance.
RECURSIVE FromKeysLoop(_, _, _, _)
FromKeysLoop(h, d, keys, value) ==
  IF keys = <<>> THEN Result(h, d, "none", None)
  ELSE Bind(SetItem(h, d, keys[1], value), LAMBDA st :
         FromKeysLoop(st.heap, st.od, Tail(keys), value))

FromKeys(h, keys, value) ==
  Bind(AllocRoot(h), LAMBDA root :
    Bind([n \in (DOMAIN h) \cup {root} |->
            IF n = root THEN <<root, root, None>> ELSE h[n]],
         LAMBDA h1 :
           FromKeysLoop(h1, [root |-> root, map |-> EmptyDict,
                             dict |-> EmptyDict], keys, value)))

\* The order the present keys were last inserted in, after these keys were
\* set one after the other.
RECURSIVE TrackAll(_, _)
TrackAll(ord, keys) ==
  IF keys = <<>> THEN ord
  ELSE TrackAll(IF keys[1] \in Range(ord) THEN ord ELSE Append(ord, keys[1]),
                Tail(keys))

\* The calls a caller can make: one or two positional arguments, or none.
ArgLists ==
  {<<>>} \cup {<<a>> : a \in Others}
         \cup {<<a, a>> : a \in {b \in Others : b.items = <<>>}}

CommitArgs(op, args, r) ==
  /\ heap' = Sweep(r.heap, ObjRoots(r.od) \cup ObjRoots(cp) \cup IterRoots(it))
  /\ od' = r.od
  /\ order' = IF r.exc = "none" /\ args # <<>>
              THEN TrackAll(order, KeysGiven(args[1].items))
              ELSE order
  /\ last' = Call(op, None, args, r)
  /\ run' = NoRun
  /\ UNCHANGED <<cp, it>>

DoUpdate ==
  \E args \in ArgLists :
  \E r \in {UpdateCall(heap, od, args)} :
    CommitArgs("update", args, r)

DoInitAgain ==
  \E args \in ArgLists :
  \E r \in {InitAgain(heap, od, args)} :
    CommitArgs("reinit", args, r)

\* OrderedDict.fromkeys(keys, value) whose result the caller does not keep:
\* ret describes the new instance.
DoFromKeys ==
  \E keys \in UNION {[1..n -> Keys] : n \in 0..MaxSets}, value \in Values :
  \E c \in {FromKeys(heap, keys, value)} :
  \E r \in {Result(c.heap, od, c.exc,
                   [keys |-> KeysOf(c.heap, c.od), dict |-> c.od.dict])} :
  /\ Commit(r)
  /\ last' = Call("fromkeys", None, keys, r)
  /\ run' = NoRun

NextUpdate ==
  \/ DoUpdate
  \/ DoInitAgain
  \/ DoFromKeys
  \/ DoSetItem
  \/ DoDelItem

SpecUpdate == Init /\ [][NextUpdate]_vars

\* update and __init__ on an existing instance do what setting the given
\* pairs one after the other does (keys() grows by the absent keys in the
\* order given, a present key keeps its place and takes the last value given);
\* with two arguments they raise TypeError and change nothing; fromkeys leaves
\* od alone and returns the given keys, each once, in the order first given.
UpdateIsSuccessiveSets ==
  /\ (last.op \in {"update", "reinit"} /\ Len(last.arg) > 1) =>
       (last.exc = "TypeError" /\ Unchanged)
  /\ (last.op \in {"update", "reinit"} /\ Len(last.arg) <= 1) =>
       /\ last.exc = "none"
       /\ CurKeys = TrackAll(PreKeys,
                             IF last.arg = <<>> THEN <<>>
                             ELSE KeysGiven(last.arg[1].items))
       /\ \A k \in DOMAIN PreDict :
            (last.arg = <<>> \/ k \notin Range(KeysGiven(last.arg[1].items)))
              => od.dict[k] = PreDict[k]
       /\ last.arg # <<>> =>
            \A n \in 1..Len(last.arg[1].items) :
              (\A m \in (n + 1)..Len(last.arg[1].items) :
                 last.arg[1].items[m][1] # last.arg[1].items[n][1])
                => od.dict[last.arg[1].items[n][1]] = last.arg[1].items[n][2]
  /\ last.op = "fromkeys" =>
       /\ last.exc = "none"
       /\ Unchanged
       /\ last.ret.keys = TrackAll(<<>>, last.arg)
       /\ DOMAIN last.ret.dict = Range(last.arg)

\* update added two absent keys, in the order given, behind a key that was
\* there.
UpdateWitness ==
  /\ last.op = "update"
  /\ last.exc = "none"
  /\ Len(PreKeys) = 1
  /\ CurKeys = <<1, 2, None>>

\* ------------------------------------------- iteration while keys are removed
\* The map is filled, a generator is made by iter(od), and from then on the
\* caller interleaves next() with __delitem__, pop and popitem.
IterFill ==
  /\ it.state = "none"
  /\ \E key \in Keys :
       \E r \in {SetItem(heap, od, key, None)} :
       /\ Commit(r)
       /\ last' = Call("setitem", key, None, r)
       /\ run' = NoRun

IterNew ==
  /\ it.state = "none"
  /\ it' = [state |-> "created", curr |-> NoHandle, yielded |-> <<>>,
            start |-> KeysOf(heap, od)]
  /\ last' = [op |-> "iter", key |-> None, arg |-> None, exc |-> "none",
              ret |-> None, pre |-> Snapshot, again |-> FALSE, calls |-> 0,
             revisit |-> FALSE]
  /\ UNCHANGED <<heap, od, order, run, cp>>

IterNext ==
  /\ it.state \in {"created", "running"}
  /\ \E r \in {IterStep(heap, od, it)} :
     /\ it' = r.it
     /\ heap' = Sweep(heap, ObjRoots(od) \cup ObjRoots(cp) \cup IterRoots(r.it))
     /\ last' = [op |-> "next", key |-> None, arg |-> None, exc |-> r.exc,
                 ret |-> r.ret, pre |-> Snapshot, again |-> FALSE, calls |-> 0,
             revisit |-> FALSE]
  /\ UNCHANGED <<od, order, run, cp>>

IterDelItem == it.state \in {"created", "running"} /\ DoDelItem

IterPop == it.state \in {"created", "running"} /\ DoPop

IterPopItem == it.state \in {"created", "running"} /\ DoPopItem

NextIter ==
  \/ IterFill
  \/ IterNew
  \/ IterNext
  \/ IterDelItem
  \/ IterPop
  \/ IterPopItem

SpecIter == Init /\ [][NextIter]_vars

\* C20: while next() on one forward iteration is interleaved with delete, pop
\* and popitem (no set, no clear), no next() fails, no key is yielded twice,
\* only keys present when the iteration started are yielded (so it ends after
\* at most that many yields), and the map keeps invariant I1.
C20_IterWithRemovals ==
  /\ it.state # "error"
  /\ NoDup(it.yielded)
  /\ Range(it.yielded) \subseteq Range(it.start)
  /\ Len(it.yielded) <= Len(it.start)
  /\ last.op = "next" => last.exc \in {"none", "StopIteration"}
  /\ C1_I1

\* next() resumed on a link that had been removed and yielded the key of a
\* link that had been removed too: the key is no longer in the map.
C20_Witness ==
  /\ last.op = "next"
  /\ last.exc = "none"
  /\ Len(it.yielded) >= 2
  /\ last.ret \notin DOMAIN od.dict
  /\ it.yielded[1] \notin DOMAIN od.dict

\* ------------------------------------------------------ DefaultOrderedDict
\* d[key] goes through the __getitem__ of the instance's class; the outcomes
\* are what the caller's factory does on its first call and, when that call
\* raises, on a second one.
InitWith(o) ==
  /\ od = o
  /\ heap = InitHeap
  /\ last = [op |-> "init", key |-> None, arg |-> None, exc |-> "none",
             ret |-> None, pre |-> [heap |-> InitHeap, od |-> o],
             again |-> FALSE, calls |-> 0, revisit |-> FALSE]
  /\ order = <<>>
  /\ run = NoRun
  /\ cp = NoCopy
  /\ it = NoIter

\* DefaultOrderedDict(factory)
InitDefault == InitWith(InitDefaultOd(Callable))

\* DefaultOrderedDict()
InitNoFactory == InitWith(InitDefaultOd(None))

\* An instance of either class.
InitAnyClass ==
  \E o \in {InitOd, InitDefaultOd(None), InitDefaultOd(Callable)} : InitWith(o)

DoSubscript ==
  \E key \in Keys, first \in Outcomes :
  \E second \in IF first = Raises THEN Outcomes ELSE {Raises} :
    \E r \in {Subscript(heap, od, key, <<first, second>>)} :
    /\ Commit(r)
    /\ last' = Call("subscript", key, SubSeq(<<first, second>>, 1, r.calls), r)
    /\ run' = NoRun

DoContains ==
  \E key \in Keys :
    \E r \in {Result(heap, od, "none", Contains(od, key))} :
    /\ Commit(r)
    /\ last' = Call("contains", key, None, r)
    /\ run' = NoRun

DoKeys ==
  LET w == Iter(heap, od)
      r == Result(heap, od, IF w.ok THEN "none" ELSE "IndexError", w.keys) IN
  /\ Commit(r)
  /\ last' = Call("keys", None, None, r)
  /\ run' = NoRun

DoValues ==
  \E r \in {ValuesOf(heap, od)} :
  /\ Commit(r)
  /\ last' = Call("values", None, None, r)
  /\ run' = NoRun

DoItems ==
  \E r \in {Items(heap, od)} :
  /\ Commit(r)
  /\ last' = Call("items", None, None, r)
  /\ run' = NoRun

\* d.copy() whose result the caller does not keep: ret describes the copy.
DoCopyDropped ==
  \E c \in {Copy(heap, od)} :
  LET r == ResultCalls(c.heap, c.od, c.exc,
                       [new |-> c.new, keys |-> KeysOf(c.heap, c.new)],
                       c.calls) IN
  /\ Commit(r)
  /\ last' = Call("copy", None, None, r)
  /\ run' = NoRun

DoReduce ==
  \E r \in {Reduce(heap, od)} :
  /\ Commit(r)
  /\ last' = Call("reduce", None, None, r)
  /\ run' = NoRun

NextDefault ==
  \/ DoSubscript
  \/ DoContains
  \/ DoKeys
  \/ DoValues
  \/ DoItems
  \/ DoCopyDropped
  \/ DoSetItem
  \/ DoDelItem
  \/ DoPopItem
  \/ DoPop
  \/ DoSetDefault
  \/ DoClear

SpecDefault == InitDefault /\ [][NextDefault]_vars

\* A DefaultOrderedDict without a factory that is filled, emptied and read.
NextNoFactory ==
  \/ DoSubscript
  \/ DoSetItem
  \/ DoDelItem

SpecNoFactory == InitNoFactory /\ [][NextNoFactory]_vars

\* An instance of either class that is filled, emptied and pickled.
NextReduce ==
  \/ DoReduce
  \/ DoSetItem
  \/ DoDelItem

SpecReduce == InitAnyClass /\ [][NextReduce]_vars

PreOd == last.pre.od

\* C13 (auto-vivification): on a DefaultOrderedDict with a factory, d[k] for
\* an absent k whose factory returns a value stores that value under k as a
\* new entry at the tail and returns it; d[k] for a present k, a vivified one
\* included, returns the stored value and changes nothing.
C13_AutoVivify ==
  (last.op = "subscript" /\ IsDefault(PreOd)) =>
    IF last.key \in DOMAIN PreDict
    THEN last.exc = "none" /\ last.ret = PreDict[last.key] /\ Unchanged
    ELSE PreOd.default_factory # None =>
           /\ last.arg # <<>>
           /\ last.arg[1] # Raises => last.exc = "none"
           /\ last.exc = "none" =>
                /\ last.ret = last.arg[Len(last.arg)]
                /\ last.ret \in Values
                /\ CurKeys = Append(PreKeys, last.key)
                /\ od.dict = DictSet(PreDict, last.key, last.ret)
                /\ od.default_factory = PreOd.default_factory

\* d[k] read back the value that the d[k] before it had vivified behind
\* another key.
C13_Witness ==
  /\ last.op = "subscript"
  /\ last.revisit
  /\ last.exc = "none"
  /\ last.calls = 0
  /\ Len(CurKeys) >= 2
  /\ CurKeys[Len(CurKeys)] = last.key
  /\ last.ret = od.dict[last.key]

\* C14 (missing without factory): on a DefaultOrderedDict without a factory,
\* d[k] for an absent k raises KeyError and inserts nothing: keys(), values
\* and links are unchanged.
C14_MissingNoFactory ==
  (/\ last.op = "subscript" /\ IsDefault(PreOd)
   /\ PreOd.default_factory = None
   /\ last.key \notin DOMAIN PreDict) =>
    /\ last.exc = "KeyError"
    /\ Unchanged
    /\ CurKeys = PreKeys

\* d[k] failed on a factory-less DefaultOrderedDict that holds other keys.
C14_Witness ==
  /\ last.op = "subscript"
  /\ IsDefault(od)
  /\ od.default_factory = None
  /\ last.exc = "KeyError"
  /\ Len(CurKeys) = 2

\* C19: each d[k] on a DefaultOrderedDict calls the factory exactly once when
\* k is absent and a factory is set, and not at all when k is present; when
\* that one call raises KeyError, the KeyError propagates and nothing is
\* inserted.
C19_FactoryOnce ==
  (last.op = "subscript" /\ IsDefault(PreOd)) =>
    IF last.key \in DOMAIN PreDict
    THEN last.calls = 0
    ELSE PreOd.default_factory # None =>
           /\ last.calls = 1
           /\ last.arg[1] = Raises => (last.exc = "KeyError" /\ Unchanged)

\* The OrderedDict part of an instance.
Plain(o) == [root |-> o.root, map |-> o.map, dict |-> o.dict]

\* What the same call does on the OrderedDict part alone.
Delegate ==
  LET h == last.pre.heap
      o == Plain(PreOd)
  IN CASE last.op = "pop" -> Pop(h, o, last.key, last.arg)
       [] last.op = "delitem" -> DelItem(h, o, last.key)
       [] last.op = "setdefault" -> SetDefault(h, o, last.key, last.arg)
       [] last.op = "setitem" -> SetItem(h, o, last.key, last.arg)
       [] last.op = "popitem" -> PopItem(h, o, last.arg)
       [] last.op = "clear" -> Clear(h, o)
       [] last.op = "items" -> Items(h, o)
       [] last.op = "values" -> ValuesOf(h, o)
       [] last.op = "keys" -> Result(h, o, "none", KeysOf(h, o))
       [] last.op = "contains" -> Result(h, o, "none", Contains(o, last.key))

\* C18: on a DefaultOrderedDict with a factory, every operation other than
\* d[k] does what it does on an OrderedDict and never vivifies: contains, pop,
\* delete, keys/values/items, copy (and set, popitem, clear, setdefault) call
\* the factory zero times and insert no key of their own, and setdefault on an
\* absent key stores the default it was given.
C18_OthersDelegate ==
  (/\ last.op \in {"contains", "pop", "delitem", "keys", "values", "items",
                   "copy", "setdefault", "setitem", "popitem", "clear"}
   /\ IsDefault(PreOd)
   /\ PreOd.default_factory # None) =>
    /\ last.calls = 0
    /\ last.exc # "Unscripted"
    /\ od.default_factory = PreOd.default_factory
    /\ (DOMAIN od.dict) \ (DOMAIN PreDict) \subseteq
         (IF last.op \in {"setdefault", "setitem"} THEN {last.key} ELSE {})
    /\ last.op \in {"contains", "keys", "values", "items", "copy"} => Unchanged
    /\ (last.op = "setdefault" /\ last.key \notin DOMAIN PreDict) =>
         /\ last.ret = last.arg
         /\ od.dict = DictSet(PreDict, last.key, last.arg)
         /\ CurKeys = Append(PreKeys, last.key)
    /\ last.op = "copy" =>
         /\ last.exc = "none"
         /\ last.ret.keys = PreKeys
         /\ last.ret.new.dict = PreDict
    /\ last.op # "copy" =>
         /\ last.exc = Delegate.exc
         /\ last.ret = Delegate.ret
         /\ Plain(od) = Delegate.od
         /\ heap = Collect(Delegate.heap, od)

\* setdefault on an absent key of a DefaultOrderedDict with a factory stored
\* the default it was given, behind another key.
C18_Witness ==
  /\ last.op = "setdefault"
  /\ IsDefault(PreOd)
  /\ PreOd.default_factory = Callable
  /\ last.key \notin DOMAIN PreDict
  /\ Len(CurKeys) >= 2
  /\ od.dict[last.key] = last.arg

\* C16 (serialization round trip): __reduce__ emits the entries as pairs in
\* keys() order, and the instance rebuilt from what it returns, by setting
\* those pairs in order, is of the same class, has the same factory, the same
\* keys() order and the same values; the map itself is unchanged.
C16_ReduceRoundTrip ==
  last.op = "reduce" =>
    /\ last.exc = "none"
    /\ Unchanged
    /\ LET red == last.ret
           pairs == IF red.hasitems THEN red.items ELSE red.args[1]
           rb == Rebuild(red)
       IN /\ Len(pairs) = Len(CurKeys)
          /\ \A n \in 1..Len(pairs) :
               pairs[n] = <<CurKeys[n], od.dict[CurKeys[n]]>>
          /\ Iter(rb.heap, rb.od).ok
          /\ KeysOf(rb.heap, rb.od) = CurKeys
          /\ rb.od.dict = od.dict
          /\ IsDefault(rb.od) = IsDefault(od)
          /\ IsDefault(od) => rb.od.default_factory = od.default_factory

\* __reduce__ ran on a DefaultOrderedDict with a factory whose three keys are
\* not in ascending order.
C16_Witness ==
  /\ last.op = "reduce"
  /\ IsDefault(od)
  /\ od.default_factory = Callable
  /\ CurKeys = <<2, 1, None>>
  /\ last.ret.items[1][1] = 2

\* ------------------------------------------------------- a copy that is kept
\* The caller fills m (od), takes c = m.copy() (cp) and from then on applies
\* at most MaxAfter calls to either of the two. Here last is
\*   [op, target, exc, calls, step, seen]
\* with target the instance the call was made on ("m" or "c"), step the
\* number of calls since the copy and seen what the other instance looked
\* like when the call was made.
View(h, o) ==
  [keys |-> KeysOf(h, o), dict |-> o.dict, index |-> DOMAIN o.map]

Target(t) == IF t = "m" THEN od ELSE cp
Other(t) == IF t = "m" THEN cp ELSE od

\* The value the caller fills in for a key.
FillValue(key) == IF key = None THEN None ELSE ((key - 1) % MaxVal) + 1

InitCopyWith(o) ==
  /\ od = o
  /\ heap = InitHeap
  /\ last = [op |-> "init", target |-> "m", exc |-> "none", calls |-> 0,
             step |-> 0, seen |-> View(InitHeap, o)]
  /\ order = <<>>
  /\ run = NoRun
  /\ cp = NoCopy
  /\ it = NoIter

CopyFill ==
  /\ cp.root = NoHandle
  /\ \E key \in Keys :
       \E r \in {SetItem(heap, od, key, FillValue(key))} :
       /\ Commit(r)
       /\ last' = [op |-> "fill", target |-> "m", exc |-> r.exc, calls |-> 0,
                   step |-> 0, seen |-> View(r.heap, r.od)]
       /\ run' = NoRun

\* c = m.copy()
CopyTake ==
  /\ cp.root = NoHandle
  /\ \E c \in {Copy(heap, od)} :
     /\ heap' = Sweep(c.heap, ObjRoots(c.od) \cup ObjRoots(c.new))
     /\ od' = c.od
     /\ cp' = c.new
     /\ last' = [op |-> "copy", target |-> "m", exc |-> c.exc,
                 calls |-> c.calls, step |-> 0, seen |-> View(heap, od)]
  /\ UNCHANGED <<order, run, it>>

\* A call on m or on c with outcome r: the other instance is not passed to
\* the call, and the links neither instance refers to any more are gone.
CopyCommit(t, op, r) ==
  /\ cp.root # NoHandle
  /\ last.step < MaxAfter
  /\ \E v \in {r} :
       /\ heap' = Sweep(v.heap, ObjRoots(v.od) \cup ObjRoots(Other(t)))
       /\ od' = IF t = "m" THEN v.od ELSE od
       /\ cp' = IF t = "c" THEN v.od ELSE cp
       /\ last' = [op |-> op, target |-> t, exc |-> v.exc,
                   calls |-> CallsOf(v), step |-> last.step + 1,
                   seen |-> View(heap, Other(t))]
  /\ UNCHANGED <<order, run, it>>

CopySetItem ==
  \E t \in {"m", "c"}, key \in Keys, value \in Values :
    CopyCommit(t, "setitem", SetItem(heap, Target(t), key, value))

CopyDelItem ==
  \E t \in {"m", "c"}, key \in Keys :
    CopyCommit(t, "delitem", DelItem(heap, Target(t), key))

CopyPop ==
  \E t \in {"m", "c"}, key \in Keys, default \in Defaults :
    CopyCommit(t, "pop", Pop(heap, Target(t), key, default))

\* popitem(last) on m or on c: the call that unlinks through the sentinel.
CopyPopItem ==
  \E t \in {"m", "c"}, lastFlag \in BOOLEAN :
    CopyCommit(t, "popitem", PopItem(heap, Target(t), lastFlag))

CopyClear ==
  \E t \in {"m", "c"} :
    CopyCommit(t, "clear", Clear(heap, Target(t)))

CopySubscript ==
  \E t \in {"m", "c"}, key \in Keys, first \in Outcomes :
  \E second \in IF first = Raises THEN Outcomes ELSE {Raises} :
    CopyCommit(t, "subscript",
               Subscript(heap, Target(t), key, <<first, second>>))

\* An OrderedDict and its copy.
InitCopy == InitCopyWith(InitOd)

NextCopy ==
  \/ CopyFill
  \/ CopyTake
  \/ CopySetItem
  \/ CopyDelItem
  \/ CopyPop
  \/ CopyPopItem
  \/ CopyClear

SpecCopy == InitCopy /\ [][NextCopy]_vars

\* A DefaultOrderedDict, with or without a factory, and its copy.
InitDefaultCopy ==
  \E factory \in {None, Callable} : InitCopyWith(InitDefaultOd(factory))

NextDefaultCopy ==
  \/ CopyFill
  \/ CopyTake
  \/ CopySetItem
  \/ CopyDelItem
  \/ CopySubscript

SpecDefaultCopy == InitDefaultCopy /\ [][NextDefaultCopy]_vars

\* The links an instance can reach.
LinksReached(h, o) == Reach(h, ObjRoots(o))

\* C11 (copy independence): c = m.copy() has the keys() order and the
\* bindings m had when it was called and leaves m as it was; afterwards a
\* set, delete, popitem (from either end), pop of a key or clear applied to c
\* leaves m's keys(), membership and values as they were, one applied to m
\* leaves c's as they were, and no link is reachable from both.
C11_CopyIndependence ==
  cp.root # NoHandle =>
    /\ last.op = "copy" =>
         /\ last.exc = "none"
         /\ View(heap, cp).keys = last.seen.keys
         /\ View(heap, cp).dict = last.seen.dict
         /\ DOMAIN cp.map = DOMAIN cp.dict
         /\ View(heap, od) = last.seen
    /\ last.op \in {"setitem", "delitem", "popitem", "pop", "clear"} =>
         View(heap, Other(last.target)) = last.seen
    /\ LinksReached(heap, od) \cap LinksReached(heap, cp) = {}

\* Two calls after the copy, the second of which is a popitem that took a key
\* out of c: m still has its three keys and c's keys() differ from m's.
C11_Witness ==
  /\ cp.root # NoHandle
  /\ last.op = "popitem"
  /\ last.target = "c"
  /\ last.exc = "none"
  /\ last.step >= 2
  /\ Len(KeysOf(heap, od)) = 3
  /\ KeysOf(heap, cp) # KeysOf(heap, od)
  /\ cp.dict # od.dict

\* The bindings of an OrderedDict, read through items(), and of a plain dict.
Bindings(h, o) ==
  LET its == Items(h, o).ret IN {its[n] : n \in 1..Len(its)}

DictBindings(d) == {<<k, d[k]>> : k \in DOMAIN d}

SameSequence(h, a, b) ==
  /\ KeysOf(h, a) = KeysOf(h, b)
  /\ \A k \in DOMAIN a.dict : k \in DOMAIN b.dict /\ a.dict[k] = b.dict[k]

\* C12 (equality asymmetry): m == c for two OrderedDicts holds exactly when
\* they have the same keys in the same order with the same values, so the same
\* bindings in a different order are unequal; m == d for a plain dict d holds
\* exactly when the bindings are the same set, whatever the order. So m and c
\* can both equal one plain dict and be unequal to each other. The plain dict
\* is dict(c) or dict(m).
C12_EqualityAsymmetry ==
  cp.root # NoHandle =>
    /\ Eq(heap, od, cp) <=> SameSequence(heap, od, cp)
    /\ Eq(heap, cp, od) <=> SameSequence(heap, cp, od)
    /\ Ne(heap, od, cp) <=> ~SameSequence(heap, od, cp)
    /\ DictEq(od, cp.dict) <=> Bindings(heap, od) = DictBindings(cp.dict)
    /\ DictEq(cp, od.dict) <=> Bindings(heap, cp) = DictBindings(od.dict)
    /\ DictEq(od, od.dict)
    /\ (/\ Bindings(heap, od) = Bindings(heap, cp)
        /\ KeysOf(heap, od) # KeysOf(heap, cp)) =>
         /\ ~Eq(heap, od, cp)
         /\ DictEq(od, cp.dict)
         /\ DictEq(cp, cp.dict)

\* m and c hold the same two or more bindings in different orders: each equals
\* the plain dict, and they are unequal.
C12_Witness ==
  /\ cp.root # NoHandle
  /\ Len(KeysOf(heap, od)) >= 2
  /\ Bindings(heap, od) = Bindings(heap, cp)
  /\ KeysOf(heap, od) # KeysOf(heap, cp)
  /\ ~Eq(heap, od, cp)
  /\ DictEq(od, cp.dict)
  /\ DictEq(cp, cp.dict)

\* C15: DefaultOrderedDict.copy() returns a new DefaultOrderedDict with the
\* factory of the original and the same entries in the same order, without
\* calling the factory; afterwards a set, a delete or a d[key] that vivifies a
\* key in one of the two leaves the other's keys(), values and factory as
\* they were.
C15_DefaultCopy ==
  (cp.root # NoHandle /\ IsDefault(od)) =>
    /\ IsDefault(cp)
    /\ cp.default_factory = od.default_factory
    /\ cp.root # od.root
    /\ last.op = "copy" =>
         /\ last.exc = "none"
         /\ last.calls = 0
         /\ View(heap, cp).keys = last.seen.keys
         /\ View(heap, cp).dict = last.seen.dict
         /\ View(heap, od) = last.seen
    /\ last.op \in {"setitem", "delitem", "subscript"} =>
         View(heap, Other(last.target)) = last.seen
    /\ LinksReached(heap, od) \cap LinksReached(heap, cp) = {}

\* c[key] vivified a key in the copy that the original, which has the same
\* factory and still its two or more keys, does not hold.
C15_Witness ==
  /\ cp.root # NoHandle
  /\ IsDefault(od)
  /\ od.default_factory = Callable
  /\ last.op = "subscript"
  /\ last.target = "c"
  /\ last.calls = 1
  /\ last.exc = "none"
  /\ Len(KeysOf(heap, od)) >= 2
  /\ \E k \in DOMAIN cp.dict : k \notin DOMAIN od.dict
====
